---- MODULE Spec2Model ----
(***************************************************************************)
(* Model of the team-graph builder and CRUD layer of the Unified MCP       *)
(* server (src/app_context.py, src/main.py, src/session_manager.py).       *)
(*                                                                         *)
(* A team definition is abstracted to its key and its "members" list; an   *)
(* agent definition to its key and an abstract payload.  A built team is   *)
(* a value that records the participants it was built from, so a registry  *)
(* entry derived from older definitions differs from a fresh one.          *)
(*                                                                         *)
(* A session file is abstracted to what it parses to (a session with its   *)
(* creation hour and history, or one of the damaged contents), the clock   *)
(* to whole hours, and a team run to its outcome (a result or an           *)
(* exception).                                                             *)
(***************************************************************************)
EXTENDS Integers, Sequences, FiniteSets, TLC

\* ------------------------------------------------------------------ bounds
\* The member entries of a definition mapping, counted over all its teams:
\* for the mappings the tool calls build, and for the sorter's inputs.
MaxMembers == 2
MaxSortMembers == 3

\* Team keys the tool calls use, team keys of the sorter's inputs, the agent
\* key and the agent payloads.
TeamPool == {"T1", "T2"}
SortPool == {"T1", "T2", "T3"}
AgentPool == {"A1"}
AgentData == {"r1", "r2"}
MemberPool == TeamPool \cup AgentPool

Range(s) == {s[i] : i \in 1..Len(s)}
SeqsUpTo(S, n) == UNION {[1..m -> S] : m \in 0..n}
MemberLists == SeqsUpTo(MemberPool, MaxMembers)
RECURSIVE TotalMembers(_)
TotalMembers(cfg) ==
    IF cfg = <<>> THEN 0 ELSE Len(Head(cfg).members) + TotalMembers(Tail(cfg))

\* The iteration orders a Python set of keys drawn from `pool` can have: one
\* per permutation of the pool (the order depends on the process's string
\* hash seed).
HashOrders(pool) == {p \in [1..Cardinality(pool) -> pool] : Range(p) = pool}

\* ------------------------------------------------- the definition mappings
\* teams_config is an insertion-ordered dict: a sequence of entries with
\* pairwise distinct keys.
KeysOf(cfg) == {cfg[i].key : i \in 1..Len(cfg)}
IndexOf(cfg, k) == CHOOSE i \in 1..Len(cfg) : cfg[i].key = k
MembersOf(cfg, k) == IF k \in KeysOf(cfg) THEN cfg[IndexOf(cfg, k)].members ELSE <<>>
KeySeq(cfg) == [i \in 1..Len(cfg) |-> cfg[i].key]
DictSet(cfg, k, m) ==
    IF k \in KeysOf(cfg)
    THEN [cfg EXCEPT ![IndexOf(cfg, k)] = [key |-> k, members |-> m]]
    ELSE Append(cfg, [key |-> k, members |-> m])
DictDel(cfg, k) == SelectSeq(cfg, LAMBDA e : e.key # k)

EmptyMap == [k \in {} |-> "none"]
MapSet(f, k, v) == [x \in DOMAIN f \cup {k} |-> IF x = k THEN v ELSE f[x]]
MapDel(f, k) == [x \in DOMAIN f \ {k} |-> f[x]]

\* ------------------------------------------------------- _topological_sort
\* Iterating the set `deps` yields its elements in the hash order `ord`.
SetIter(deps, ord) == SelectSeq(ord, LAMBDA k : k \in deps)

\* dependencies = {member for member in config["members"] if member in team_configs}
Dependencies(cfg, i) == {m \in Range(cfg[i].members) : m \in KeysOf(cfg)}

RECURSIVE AppendDependent(_, _, _)
AppendDependent(adj, deps, team_key) ==
    IF deps = <<>> THEN adj
    ELSE AppendDependent([adj EXCEPT ![Head(deps)] = Append(@, team_key)],
                         Tail(deps), team_key)

\* Variant: the dependencies collected in a list, so a repeated member counts
\* twice.
InDegreeOf_list(cfg, i) == Len(SelectSeq(cfg[i].members, LAMBDA m : m \in KeysOf(cfg)))

\* in_degree[team_key] = len(dependencies)
InDegreeOf(cfg, i) == Cardinality(Dependencies(cfg, i))

RECURSIVE BuildGraph(_, _, _, _, _)
BuildGraph(cfg, i, adj, in_degree, ord) ==
    IF i > Len(cfg) THEN [adj |-> adj, in_degree |-> in_degree]
    ELSE LET deps == Dependencies(cfg, i)
         IN  BuildGraph(cfg, i + 1,
                        AppendDependent(adj, SetIter(deps, ord), cfg[i].key),
                        [in_degree EXCEPT ![cfg[i].key] = InDegreeOf(cfg, i)],
                        ord)

InitialQueue(cfg, in_degree) == SelectSeq(KeySeq(cfg), LAMBDA k : in_degree[k] = 0)

RECURSIVE Relax(_, _, _)
Relax(dependents, in_degree, queue) ==
    IF dependents = <<>> THEN [in_degree |-> in_degree, queue |-> queue]
    ELSE LET d == Head(dependents)
             nd == [in_degree EXCEPT ![d] = @ - 1]
         IN  Relax(Tail(dependents), nd,
                   IF nd[d] = 0 THEN Append(queue, d) ELSE queue)

RECURSIVE Kahn(_, _, _, _)
Kahn(adj, in_degree, queue, sorted_list) ==
    IF queue = <<>> THEN [sorted_list |-> sorted_list, in_degree |-> in_degree]
    ELSE LET current == Head(queue)
             r == Relax(adj[current], in_degree, Tail(queue))
         IN  Kahn(adj, r.in_degree, r.queue, Append(sorted_list, current))

\* Variant: "degree >= 0" in place of "degree > 0".
CycleNodes_all(cfg, in_degree) == {k \in KeysOf(cfg) : in_degree[k] >= 0}

\* cycle_nodes = {key for key, degree in in_degree.items() if degree > 0}
CycleNodes(cfg, in_degree) == {k \in KeysOf(cfg) : in_degree[k] > 0}

\* Variant: the initial queue filled from a set of the zero-degree keys, so
\* its order is the set's iteration order.
topological_sort_setqueue(cfg, ord) ==
    LET g == BuildGraph(cfg, 1, [k \in KeysOf(cfg) |-> <<>>],
                        [k \in KeysOf(cfg) |-> 0], ord)
        q == SetIter({k \in KeysOf(cfg) : g.in_degree[k] = 0}, ord)
        r == Kahn(g.adj, g.in_degree, q, <<>>)
    IN  IF Len(r.sorted_list) = Len(cfg)
        THEN [ok |-> TRUE, order |-> r.sorted_list, cycle_nodes |-> {}]
        ELSE [ok |-> FALSE, order |-> <<>>,
              cycle_nodes |-> CycleNodes(cfg, r.in_degree)]

topological_sort(cfg, ord) ==
    LET g == BuildGraph(cfg, 1, [k \in KeysOf(cfg) |-> <<>>],
                        [k \in KeysOf(cfg) |-> 0], ord)
        r == Kahn(g.adj, g.in_degree, InitialQueue(cfg, g.in_degree), <<>>)
    IN  IF Len(r.sorted_list) = Len(cfg)
        THEN [ok |-> TRUE, order |-> r.sorted_list, cycle_nodes |-> {}]
        ELSE [ok |-> FALSE, order |-> <<>>,
              cycle_nodes |-> CycleNodes(cfg, r.in_degree)]

\* --------------------------------------------------- _create_team_instance
AgentParticipant(k, data) ==
    [kind |-> "agent", key |-> k, data |-> data, members |-> <<>>]
TeamParticipant(k, members) ==
    [kind |-> "team", key |-> k, data |-> "team", members |-> members]
NoTeam == [kind |-> "none", key |-> "none", data |-> "none", members |-> <<>>]

\* Variant: a member that is a team key without a registry entry is skipped
\* like an undefined name, in place of the "return None" of lines 128-132.
RECURSIVE ResolveMembers_skip(_, _, _, _, _)
ResolveMembers_skip(todo, cfg, agents, teams, members) ==
    IF todo = <<>> THEN [abort |-> FALSE, members |-> members]
    ELSE LET member_key == Head(todo)
         IN  IF member_key \in KeysOf(cfg) /\ member_key \in DOMAIN teams
             THEN ResolveMembers_skip(Tail(todo), cfg, agents, teams,
                                      Append(members, teams[member_key]))
             ELSE IF member_key \notin KeysOf(cfg) /\ member_key \in DOMAIN agents
             THEN ResolveMembers_skip(Tail(todo), cfg, agents, teams,
                      Append(members, AgentParticipant(member_key, agents[member_key])))
             ELSE ResolveMembers_skip(Tail(todo), cfg, agents, teams, members)

\* The member loop: "abort" when a member that is a team key has no registry
\* entry; an agent key adds a participant; any other key is logged and skipped.
RECURSIVE ResolveMembers(_, _, _, _, _)
ResolveMembers(todo, cfg, agents, teams, members) ==
    IF todo = <<>> THEN [abort |-> FALSE, members |-> members]
    ELSE LET member_key == Head(todo)
         IN  IF member_key \in KeysOf(cfg)
             THEN IF member_key \in DOMAIN teams
                  THEN ResolveMembers(Tail(todo), cfg, agents, teams,
                                      Append(members, teams[member_key]))
                  ELSE [abort |-> TRUE, members |-> members]
             ELSE IF member_key \in DOMAIN agents
                  THEN ResolveMembers(Tail(todo), cfg, agents, teams,
                           Append(members, AgentParticipant(member_key, agents[member_key])))
                  ELSE ResolveMembers(Tail(todo), cfg, agents, teams, members)

\* Variant: without the "no valid members" check of lines 145-147.
create_team_instance_noempty(hasFactory, cfg, agents, teams, team_key) ==
    IF ~hasFactory THEN NoTeam
    ELSE LET declared == MembersOf(cfg, team_key)
             r == ResolveMembers(declared, cfg, agents, teams, <<>>)
         IN  IF r.abort THEN NoTeam
             ELSE TeamParticipant(team_key, r.members)

create_team_instance(hasFactory, cfg, agents, teams, team_key) ==
    IF ~hasFactory THEN NoTeam
    ELSE LET declared == MembersOf(cfg, team_key)
             r == ResolveMembers(declared, cfg, agents, teams, <<>>)
         IN  IF r.abort THEN NoTeam
             ELSE IF r.members = <<>> /\ declared # <<>> THEN NoTeam
             ELSE TeamParticipant(team_key, r.members)

\* ------------------------------------------------------ reinitialize_teams
\* Variant: the loop ends at the first team that is not built.
RECURSIVE BuildLoop_stop(_, _, _, _, _)
BuildLoop_stop(order, hasFactory, cfg, agents, teams) ==
    IF order = <<>> THEN teams
    ELSE LET team_instance == create_team_instance(hasFactory, cfg, agents, teams, Head(order))
         IN  IF team_instance # NoTeam
             THEN BuildLoop_stop(Tail(order), hasFactory, cfg, agents,
                                 MapSet(teams, Head(order), team_instance))
             ELSE teams

RECURSIVE BuildLoop(_, _, _, _, _)
BuildLoop(order, hasFactory, cfg, agents, teams) ==
    IF order = <<>> THEN teams
    ELSE LET team_instance == create_team_instance(hasFactory, cfg, agents, teams, Head(order))
         IN  BuildLoop(Tail(order), hasFactory, cfg, agents,
                       IF team_instance # NoTeam
                       THEN MapSet(teams, Head(order), team_instance)
                       ELSE teams)

\* The call's return value, the registry it leaves, and whether the sort
\* raised.
reinitialize_teams(hasFactory, cfg, agents, teams, ord) ==
    IF ~hasFactory THEN [ok |-> FALSE, teams |-> teams, cycle |-> FALSE]
    ELSE IF cfg = <<>> THEN [ok |-> TRUE, teams |-> EmptyMap, cycle |-> FALSE]
    ELSE LET s == topological_sort(cfg, ord)
         IN  IF ~s.ok THEN [ok |-> FALSE, teams |-> EmptyMap, cycle |-> TRUE]
             ELSE [ok |-> TRUE,
                   teams |-> BuildLoop(s.order, hasFactory, cfg, agents, EmptyMap),
                   cycle |-> FALSE]

\* get_running_team: the registry entry, or NoTeam (None).
get_running_team(teams, team_key) ==
    IF team_key \in DOMAIN teams THEN teams[team_key] ELSE NoTeam

\* ------------------------------------------------------------------ state
VARIABLES
    agents,        \* app.agents: agent key -> definition
    teams_config,  \* app.teams_config: insertion-ordered team definitions
    teams,         \* app.teams: the registry of built teams
    factory,       \* app.factory is set (the agent runtime is available)
    disk_agents,   \* contents of agents.json
    disk_teams,    \* contents of teams.json
    last,          \* the last tool call: its name, its outcome, and what each
                   \* reinitialize_teams call it made saw and returned
    sort_cfg,      \* SpecSort: the team definitions handed to the rebuild
    sort_agents,   \* SpecSort: the agent definitions handed to the rebuild
    run1,          \* SpecSort: the first rebuild of these definitions
    run2,          \* SpecSort: the second rebuild of the same definitions
    pc,            \* SpecConc: where the running reinitialize_teams call stands
    cur,           \* SpecConc: the tool call in progress
    order,         \* SpecConc: the team keys the build loop has still to visit
    pre,           \* SpecConc: the registry when the running rebuild started
    seen,          \* SpecConc: what the last concurrent reader was handed
    store,         \* SpecSession: the session files, session id -> document
    now,           \* SpecSession: the clock, in hours
    load_out,      \* SpecSession: the last load_session call and its result
    made,          \* SpecSession: the last create_session call and its result
    gone,          \* the session ids whose file a sweep has unlinked
    wr,            \* SpecSave: the save_session call in progress
    task,          \* SpecRun: the run_ai_team call suspended on the team run
    task2,         \* SpecRace: a second run_ai_team call suspended meanwhile
    ran            \* SpecRun: the last run_ai_team call that returned

appVars == <<agents, teams_config, teams, factory, disk_agents, disk_teams, last>>
sortVars == <<sort_cfg, sort_agents, run1, run2>>
concVars == <<pc, cur, order, pre, seen>>
sessVars == <<store, now, load_out, made, gone, wr, task, task2, ran>>
vars == <<appVars, sortVars, concVars, sessVars>>

\* An agent payload that lacks a required field (create_agent rejects it).
BadPayload == "bad"
\* A team payload: a dict that carries a "members" list, or one without that
\* field (create_team rejects it, update_team then leaves the members alone).
TeamPayloads ==
    {[has_members |-> TRUE, members |-> m] : m \in MemberLists}
        \cup {[has_members |-> FALSE, members |-> <<>>]}

\* --- the dependency graph of a definition mapping, independently of the sort
DependsOn(cfg, a, b) == a \in KeysOf(cfg) /\ b \in KeysOf(cfg) /\ b \in Range(MembersOf(cfg, a))
RECURSIVE ReachSet(_, _, _)
\* keys reachable from the set `from` along dependency -> dependent edges
ReachSet(cfg, from, n) ==
    IF n = 0 THEN from
    ELSE ReachSet(cfg, from \cup {k \in KeysOf(cfg) : \E d \in from : DependsOn(cfg, k, d)}, n - 1)
Dependents(cfg, k) == {x \in KeysOf(cfg) : DependsOn(cfg, x, k)}
OnCycle(cfg, k) == k \in KeysOf(cfg) /\ k \in ReachSet(cfg, Dependents(cfg, k), Len(cfg))
HasCycle(cfg) == \E k \in KeysOf(cfg) : OnCycle(cfg, k)

\* What one reinitialize_teams call saw and did.
CallObs(cfg, before, r) ==
    [ok |-> r.ok, cycle |-> r.cycle, kept |-> (r.teams = before),
     defined |-> Len(cfg), built |-> Cardinality(DOMAIN r.teams),
     cyclic |-> HasCycle(cfg)]

\* The outcomes of a rebuild, over the iteration orders of the sort's sets.
Reinits(cfg, ag, tm) ==
    {reinitialize_teams(factory, cfg, ag, tm, ord) : ord \in HashOrders(TeamPool)}

Outcome(op, status, calls) == [op |-> op, status |-> status, calls |-> calls]

\* ApplicationContext.__init__: the files are loaded, then the registry is
\* built when the factory is available.
InitConfigs == {<<>>, <<[key |-> "T1", members |-> <<"T1">>]>>}
NotRun ==
    [done |-> FALSE,
     sort |-> [ok |-> FALSE, order |-> <<>>, cycle_nodes |-> {}],
     reinit |-> [ok |-> FALSE, teams |-> EmptyMap, cycle |-> FALSE]]
SortIdle ==
    /\ sort_cfg = <<>>
    /\ sort_agents = EmptyMap
    /\ run1 = NotRun
    /\ run2 = NotRun

NoCall == [op |-> "none", key |-> "none", original |-> <<>>, ok |-> TRUE, retry |-> FALSE]
NotSeen == [read |-> FALSE, key |-> "none", team |-> NoTeam, before |-> NoTeam, after |-> NoTeam]
ConcIdle ==
    /\ pc = "idle"
    /\ cur = NoCall
    /\ order = <<>>
    /\ pre = EmptyMap
    /\ seen = NotSeen

NotLoaded ==
    [called |-> FALSE, id |-> <<>>, result |-> "None",
     doc |-> [kind |-> "none", created_at |-> 0, history |-> <<>>]]
NotMade ==
    [called |-> FALSE, id |-> <<>>, context |-> "<None>", raised |-> FALSE,
     fresh |-> FALSE,
     doc |-> [kind |-> "none", created_at |-> 0, history |-> <<>>]]
NotWriting ==
    [pc |-> "idle", id |-> <<>>,
     old |-> [kind |-> "none", created_at |-> 0, history |-> <<>>],
     new |-> [kind |-> "none", created_at |-> 0, history |-> <<>>]]
NoTask ==
    [pc |-> "idle", team |-> "none", id |-> <<>>, prompt |-> "none",
     session_data |-> [kind |-> "none", created_at |-> 0, history |-> <<>>]]
NotRan == [called |-> FALSE, status |-> "none", result |-> "none", saved |-> FALSE]
SessIdle ==
    /\ store = EmptyMap
    /\ now = 0
    /\ load_out = NotLoaded
    /\ made = NotMade
    /\ gone = {}
    /\ wr = NotWriting
    /\ task = NoTask
    /\ task2 = NoTask
    /\ ran = NotRan

Init ==
    /\ SortIdle
    /\ ConcIdle
    /\ SessIdle
    /\ factory \in BOOLEAN
    /\ agents = EmptyMap
    /\ teams_config \in InitConfigs
    /\ disk_agents = agents
    /\ disk_teams = teams_config
    /\ \E r \in Reinits(teams_config, agents, EmptyMap) :
          /\ teams = r.teams
          /\ last = Outcome("init", "success",
                            IF factory THEN <<CallObs(teams_config, EmptyMap, r)>> ELSE <<>>)

\* ------------------------------------------------------------- agent tools
\* Each tool changes the mapping in memory, then writes the file, then
\* rebuilds.  _save_data_to_file logs a failed write and re-raises it, and no
\* tool catches it.  w is the write of the call that fails (0: none does); a
\* failed write leaves the file as it was.
WriteFaults == 0..2

create_agent(agent_key, data, w) ==
    IF agent_key \in DOMAIN agents \/ data = BadPayload
    THEN /\ last' = Outcome("create_agent", "error", <<>>)
         /\ UNCHANGED <<agents, teams_config, teams, factory, disk_agents, disk_teams, sortVars, concVars, sessVars>>
    ELSE LET ag == MapSet(agents, agent_key, data)
         IN  IF w = 1
             THEN \* save_agents raises: no rebuild, the exception leaves the tool
                  /\ agents' = ag
                  /\ last' = Outcome("create_agent", "raised", <<>>)
                  /\ UNCHANGED <<teams_config, teams, factory, disk_agents, disk_teams, sortVars, concVars, sessVars>>
             ELSE /\ agents' = ag
                  /\ disk_agents' = ag
                  /\ \E r \in Reinits(teams_config, ag, teams) :
                        /\ teams' = r.teams
                        /\ last' = Outcome("create_agent", "success",
                                           <<CallObs(teams_config, teams, r)>>)
                  /\ UNCHANGED <<teams_config, factory, disk_teams, sortVars, concVars, sessVars>>

update_agent(agent_key, data, w) ==
    IF agent_key \notin DOMAIN agents
    THEN /\ last' = Outcome("update_agent", "error", <<>>)
         /\ UNCHANGED <<agents, teams_config, teams, factory, disk_agents, disk_teams, sortVars, concVars, sessVars>>
    ELSE LET ag == MapSet(agents, agent_key, data)
         IN  IF w = 1
             THEN \* save_agents raises: no rebuild, the exception leaves the tool
                  /\ agents' = ag
                  /\ last' = Outcome("update_agent", "raised", <<>>)
                  /\ UNCHANGED <<teams_config, teams, factory, disk_agents, disk_teams, sortVars, concVars, sessVars>>
             ELSE /\ agents' = ag
                  /\ disk_agents' = ag
                  /\ \E r \in Reinits(teams_config, ag, teams) :
                        /\ teams' = r.teams
                        /\ last' = Outcome("update_agent", "success",
                                           <<CallObs(teams_config, teams, r)>>)
                  /\ UNCHANGED <<teams_config, factory, disk_teams, sortVars, concVars, sessVars>>

delete_agent(agent_key, w) ==
    IF agent_key \notin DOMAIN agents
    THEN /\ last' = Outcome("delete_agent", "error", <<>>)
         /\ UNCHANGED <<agents, teams_config, teams, factory, disk_agents, disk_teams, sortVars, concVars, sessVars>>
    ELSE LET ag == MapDel(agents, agent_key)
         IN  IF w = 1
             THEN \* save_agents raises: no rebuild, the exception leaves the tool
                  /\ agents' = ag
                  /\ last' = Outcome("delete_agent", "raised", <<>>)
                  /\ UNCHANGED <<teams_config, teams, factory, disk_agents, disk_teams, sortVars, concVars, sessVars>>
             ELSE /\ agents' = ag
                  /\ disk_agents' = ag
                  /\ \E r \in Reinits(teams_config, ag, teams) :
                        /\ teams' = r.teams
                        /\ last' = Outcome("delete_agent", "success",
                                           <<CallObs(teams_config, teams, r)>>)
                  /\ UNCHANGED <<teams_config, factory, disk_teams, sortVars, concVars, sessVars>>

\* -------------------------------------------------------------- team tools
\* Variant: the rollback deletes the entry in memory and does not rewrite
\* teams.json.
create_team_nosave(team_key, data, w) ==
    IF team_key \in KeysOf(teams_config) \/ ~data.has_members
    THEN /\ last' = Outcome("create_team", "error", <<>>)
         /\ UNCHANGED <<agents, teams_config, teams, factory, disk_agents, disk_teams, sortVars, concVars, sessVars>>
    ELSE LET cfg == DictSet(teams_config, team_key, data.members)
         IN  IF w = 1
             THEN /\ teams_config' = cfg
                  /\ last' = Outcome("create_team", "raised", <<>>)
                  /\ UNCHANGED <<agents, teams, factory, disk_agents, disk_teams, sortVars, concVars, sessVars>>
             ELSE \E r \in Reinits(cfg, agents, teams) :
                /\ teams' = r.teams
                /\ teams_config' = IF r.ok THEN cfg ELSE DictDel(cfg, team_key)
                /\ disk_teams' = cfg
                /\ last' = Outcome("create_team", IF r.ok THEN "success" ELSE "rolled_back",
                                   <<CallObs(cfg, teams, r)>>)
                /\ UNCHANGED <<agents, factory, disk_agents, sortVars, concVars, sessVars>>

create_team(team_key, data, w) ==
    IF team_key \in KeysOf(teams_config) \/ ~data.has_members
    THEN /\ last' = Outcome("create_team", "error", <<>>)
         /\ UNCHANGED <<agents, teams_config, teams, factory, disk_agents, disk_teams, sortVars, concVars, sessVars>>
    ELSE LET cfg == DictSet(teams_config, team_key, data.members)
         IN  IF w = 1
             THEN \* the first save_teams_config raises
                  /\ teams_config' = cfg
                  /\ last' = Outcome("create_team", "raised", <<>>)
                  /\ UNCHANGED <<agents, teams, factory, disk_agents, disk_teams, sortVars, concVars, sessVars>>
             ELSE \E r \in Reinits(cfg, agents, teams) :
                /\ teams' = r.teams
                /\ IF ~r.ok /\ w = 2
                   THEN \* the save of the rollback raises
                        /\ teams_config' = DictDel(cfg, team_key)
                        /\ disk_teams' = cfg
                        /\ last' = Outcome("create_team", "raised",
                                           <<CallObs(cfg, teams, r)>>)
                   ELSE IF ~r.ok
                   THEN \* the rollback: the entry is deleted and the file rewritten
                        /\ teams_config' = DictDel(cfg, team_key)
                        /\ disk_teams' = DictDel(cfg, team_key)
                        /\ last' = Outcome("create_team", "rolled_back",
                                           <<CallObs(cfg, teams, r)>>)
                   ELSE /\ teams_config' = cfg
                        /\ disk_teams' = cfg
                        /\ last' = Outcome("create_team", "success",
                                           <<CallObs(cfg, teams, r)>>)
                /\ UNCHANGED <<agents, factory, disk_agents, sortVars, concVars, sessVars>>

update_team(team_key, data, w) ==
    IF team_key \notin KeysOf(teams_config)
    THEN /\ last' = Outcome("update_team", "error", <<>>)
         /\ UNCHANGED <<agents, teams_config, teams, factory, disk_agents, disk_teams, sortVars, concVars, sessVars>>
    ELSE LET original_config == MembersOf(teams_config, team_key)
             cfg == IF ~data.has_members THEN teams_config
                    ELSE DictSet(teams_config, team_key, data.members)
         IN  IF w = 1
             THEN \* the first save_teams_config raises
                  /\ teams_config' = cfg
                  /\ last' = Outcome("update_team", "raised", <<>>)
                  /\ UNCHANGED <<agents, teams, factory, disk_agents, disk_teams, sortVars, concVars, sessVars>>
             ELSE \E r \in Reinits(cfg, agents, teams) :
                IF w = 2
                THEN \* the second save raises: the one of the rollback, or the
                     \* one that follows a successful rebuild (line 332)
                     /\ teams_config' = IF r.ok THEN cfg
                                        ELSE DictSet(cfg, team_key, original_config)
                     /\ disk_teams' = cfg
                     /\ teams' = r.teams
                     /\ last' = Outcome("update_team", "raised",
                                        <<CallObs(cfg, teams, r)>>)
                     /\ UNCHANGED <<agents, factory, disk_agents, sortVars, concVars, sessVars>>
                ELSE IF ~r.ok
                THEN LET back == DictSet(cfg, team_key, original_config)
                     IN  \E r2 \in Reinits(back, agents, r.teams) :
                            /\ teams_config' = back
                            /\ disk_teams' = back
                            /\ teams' = r2.teams
                            /\ last' = Outcome("update_team", "rolled_back",
                                               <<CallObs(cfg, teams, r),
                                                 CallObs(back, r.teams, r2)>>)
                            /\ UNCHANGED <<agents, factory, disk_agents, sortVars, concVars, sessVars>>
                ELSE /\ teams_config' = cfg
                     /\ disk_teams' = cfg
                     /\ teams' = r.teams
                     /\ last' = Outcome("update_team", "success",
                                        <<CallObs(cfg, teams, r)>>)
                     /\ UNCHANGED <<agents, factory, disk_agents, sortVars, concVars, sessVars>>

delete_team(team_key, w) ==
    IF team_key \notin KeysOf(teams_config)
    THEN /\ last' = Outcome("delete_team", "error", <<>>)
         /\ UNCHANGED <<agents, teams_config, teams, factory, disk_agents, disk_teams, sortVars, concVars, sessVars>>
    ELSE LET cfg == DictDel(teams_config, team_key)
         IN  IF w = 1
             THEN /\ teams_config' = cfg
                  /\ last' = Outcome("delete_team", "raised", <<>>)
                  /\ UNCHANGED <<agents, teams, factory, disk_agents, disk_teams, sortVars, concVars, sessVars>>
             ELSE /\ teams_config' = cfg
                  /\ disk_teams' = cfg
                  /\ \E r \in Reinits(cfg, agents, teams) :
                        /\ teams' = r.teams
                        /\ last' = Outcome("delete_team", "success",
                                           <<CallObs(cfg, teams, r)>>)
                  /\ UNCHANGED <<agents, factory, disk_agents, sortVars, concVars, sessVars>>

\* The payloads that keep the definitions within the bound.
Fits(cfg, k, m) == TotalMembers(DictSet(cfg, k, m)) <= MaxMembers

\* The tool calls, with every file write succeeding.
Next ==
    \/ \E k \in AgentPool, d \in AgentData \cup {BadPayload} : create_agent(k, d, 0)
    \/ \E k \in AgentPool, d \in AgentData : update_agent(k, d, 0)
    \/ \E k \in AgentPool : delete_agent(k, 0)
    \/ \E k \in TeamPool, d \in TeamPayloads :
          Fits(teams_config, k, d.members) /\ create_team(k, d, 0)
    \/ \E k \in TeamPool, d \in TeamPayloads :
          Fits(teams_config, k, d.members) /\ update_team(k, d, 0)
    \/ \E k \in TeamPool : delete_team(k, 0)

\* The tool calls over configuration files whose writes may fail.  A write
\* fails only while the files hold what the memory holds: the calls that
\* follow a failed write find the files writable again.
\* The team key of the calls under write failures (its members range over
\* MemberPool as before).
DiskTeamPool == {"T1"}
Faults ==
    IF agents = disk_agents /\ teams_config = disk_teams THEN WriteFaults ELSE {0}

NextDisk ==
    \/ \E k \in AgentPool, d \in AgentData \cup {BadPayload}, w \in Faults :
          create_agent(k, d, w)
    \/ \E k \in AgentPool, d \in AgentData, w \in Faults : update_agent(k, d, w)
    \/ \E k \in AgentPool, w \in Faults : delete_agent(k, w)
    \/ \E k \in DiskTeamPool, d \in TeamPayloads, w \in Faults :
          Fits(teams_config, k, d.members) /\ create_team(k, d, w)
    \/ \E k \in DiskTeamPool, d \in TeamPayloads, w \in Faults :
          Fits(teams_config, k, d.members) /\ update_team(k, d, w)
    \/ \E k \in DiskTeamPool, w \in Faults : delete_team(k, w)

SpecDisk == Init /\ [][NextDisk]_vars

Spec == Init /\ [][Next]_vars

\* --------------------------------------------------------------- SpecSort
\* The rebuild as a function of the definitions: every definition mapping
\* over the sorter's key pool is rebuilt twice, each time with an iteration
\* order of its own, the second time over the registry the first one left.
\* The sorter's inputs: up to three teams, inserted in the order T1, T2, T3,
\* whose members are any keys (earlier and later team keys, the key itself,
\* an undefined key, the agent key).  The code never compares keys other
\* than for equality and every iteration order of its sets is taken, so a
\* mapping with another insertion order is one of these with the keys renamed.
SortKeys == <<"T1", "T2", "T3">>
RECURSIVE ConfigsFrom(_, _)
ConfigsFrom(i, budget) ==
    {<<>>} \cup
    IF i > Len(SortKeys) THEN {}
    ELSE UNION {{<<[key |-> SortKeys[i], members |-> m]>> \o rest :
                    rest \in ConfigsFrom(i + 1, budget - Len(m))} :
                m \in SeqsUpTo(SortPool \cup AgentPool, budget)}
SortConfigs == ConfigsFrom(1, MaxSortMembers)
SortAgentMaps == {EmptyMap, [k \in AgentPool |-> "r1"]}

Rebuild(cfg, ag, tm, ord) ==
    [done |-> TRUE,
     sort |-> topological_sort(cfg, ord),
     reinit |-> reinitialize_teams(TRUE, cfg, ag, tm, ord)]

InitSort ==
    /\ sort_cfg \in SortConfigs
    /\ sort_agents \in SortAgentMaps
    /\ run1 = NotRun
    /\ run2 = NotRun
    /\ factory = TRUE
    /\ agents = EmptyMap
    /\ teams_config = <<>>
    /\ teams = EmptyMap
    /\ disk_agents = EmptyMap
    /\ disk_teams = <<>>
    /\ last = Outcome("init", "success", <<>>)
    /\ ConcIdle
    /\ SessIdle

FirstRebuild ==
    /\ ~run1.done
    /\ \E ord \in HashOrders(SortPool) :
          run1' = Rebuild(sort_cfg, sort_agents, EmptyMap, ord)
    /\ UNCHANGED <<appVars, concVars, sessVars, sort_cfg, sort_agents, run2>>

SecondRebuild ==
    /\ run1.done
    /\ ~run2.done
    /\ \E ord \in HashOrders(SortPool) :
          run2' = Rebuild(sort_cfg, sort_agents, run1.reinit.teams, ord)
    /\ UNCHANGED <<appVars, concVars, sessVars, sort_cfg, sort_agents, run1>>

NextSort == FirstRebuild \/ SecondRebuild

SpecSort == InitSort /\ [][NextSort]_vars

\* --------------------------------------------------------------- SpecConc
\* The same tool calls with reinitialize_teams taken one statement at a time,
\* and a reader (get_running_team) that may run between any two statements.
\* One tool call that writes definitions runs at a time.
InitConc ==
    /\ SortIdle
    /\ ConcIdle
    /\ SessIdle
    /\ factory = TRUE
    /\ agents = EmptyMap
    /\ teams_config = <<>>
    /\ disk_agents = agents
    /\ disk_teams = teams_config
    /\ teams = EmptyMap
    /\ last = Outcome("init", "success", <<>>)

\* The tool call up to its call of reinitialize_teams: the definitions are
\* changed and saved.
Enter(op, key, original) ==
    /\ cur' = [op |-> op, key |-> key, original |-> original, ok |-> TRUE, retry |-> FALSE]
    /\ pc' = "clear"
    /\ pre' = teams
    /\ seen' = NotSeen
    /\ UNCHANGED <<teams, factory, last, order, sortVars, sessVars>>

BeginAgentCall ==
    /\ pc = "idle"
    /\ \/ \E k \in AgentPool \ DOMAIN agents, d \in AgentData :
             /\ agents' = MapSet(agents, k, d)
             /\ Enter("create_agent", k, <<>>)
       \/ \E k \in DOMAIN agents, d \in AgentData :
             /\ agents' = MapSet(agents, k, d)
             /\ Enter("update_agent", k, <<>>)
       \/ \E k \in DOMAIN agents :
             /\ agents' = MapDel(agents, k)
             /\ Enter("delete_agent", k, <<>>)
    /\ disk_agents' = agents'
    /\ UNCHANGED <<teams_config, disk_teams>>

BeginTeamCall ==
    /\ pc = "idle"
    /\ \/ \E k \in TeamPool \ KeysOf(teams_config), m \in MemberLists :
             /\ Fits(teams_config, k, m)
             /\ teams_config' = DictSet(teams_config, k, m)
             /\ Enter("create_team", k, <<>>)
       \/ \E k \in KeysOf(teams_config), m \in MemberLists :
             /\ Fits(teams_config, k, m)
             /\ teams_config' = DictSet(teams_config, k, m)
             /\ Enter("update_team", k, MembersOf(teams_config, k))
       \/ \E k \in KeysOf(teams_config) :
             /\ teams_config' = DictDel(teams_config, k)
             /\ Enter("delete_team", k, <<>>)
    /\ disk_teams' = teams_config'
    /\ UNCHANGED <<agents, disk_agents>>

\* reinitialize_teams, lines 156-159: return False without a factory, else
\* self.teams = {}.
RbClear ==
    /\ pc = "clear"
    /\ IF ~factory
       THEN /\ cur' = [cur EXCEPT !.ok = FALSE]
            /\ pc' = "return"
            /\ UNCHANGED teams
       ELSE /\ teams' = EmptyMap
            /\ pc' = "sort"
            /\ UNCHANGED cur
    /\ UNCHANGED <<agents, teams_config, factory, disk_agents, disk_teams, last,
                   order, pre, seen, sortVars, sessVars>>

\* lines 161-169: nothing to build, or the sort gives the build order or raises.
RbSort ==
    /\ pc = "sort"
    /\ IF teams_config = <<>>
       THEN /\ cur' = [cur EXCEPT !.ok = TRUE]
            /\ pc' = "return"
            /\ UNCHANGED order
       ELSE \E ord \in HashOrders(TeamPool) :
               LET s == topological_sort(teams_config, ord)
               IN  IF s.ok
                   THEN /\ order' = s.order
                        /\ pc' = "build"
                        /\ UNCHANGED cur
                   ELSE /\ cur' = [cur EXCEPT !.ok = FALSE]
                        /\ pc' = "return"
                        /\ UNCHANGED order
    /\ UNCHANGED <<appVars, pre, seen, sortVars, sessVars>>

\* lines 170-178: one pass of the build loop, or the return after the last.
RbBuild ==
    /\ pc = "build"
    /\ IF order = <<>>
       THEN /\ cur' = [cur EXCEPT !.ok = TRUE]
            /\ pc' = "return"
            /\ UNCHANGED <<teams, order>>
       ELSE LET team_instance ==
                    create_team_instance(factory, teams_config, agents, teams, Head(order))
            IN  /\ teams' = IF team_instance # NoTeam
                            THEN MapSet(teams, Head(order), team_instance)
                            ELSE teams
                /\ order' = Tail(order)
                /\ UNCHANGED <<cur, pc>>
    /\ UNCHANGED <<agents, teams_config, factory, disk_agents, disk_teams, last,
                   pre, seen, sortVars, sessVars>>

\* The tool call after reinitialize_teams has returned: create_team and
\* update_team undo their change when it returned False, and update_team
\* then rebuilds once more.
Return ==
    /\ pc = "return"
    /\ IF cur.op = "create_team" /\ ~cur.ok
       THEN /\ teams_config' = DictDel(teams_config, cur.key)
            /\ disk_teams' = DictDel(teams_config, cur.key)
            /\ pc' = "idle"
            /\ cur' = NoCall
            /\ UNCHANGED pre
       ELSE IF cur.op = "update_team" /\ ~cur.ok /\ ~cur.retry
       THEN /\ teams_config' = DictSet(teams_config, cur.key, cur.original)
            /\ disk_teams' = DictSet(teams_config, cur.key, cur.original)
            /\ pc' = "clear"
            /\ cur' = [cur EXCEPT !.retry = TRUE]
            /\ pre' = teams
       ELSE /\ pc' = "idle"
            /\ cur' = NoCall
            /\ UNCHANGED <<teams_config, disk_teams, pre>>
    /\ UNCHANGED <<agents, teams, factory, disk_agents, last, order, seen, sortVars, sessVars>>

\* The registries the running rebuild ends with.
RebuildResults == {r.teams : r \in Reinits(teams_config, agents, pre)}

\* A reader while a rebuild is between its first and last statement:
\* run_ai_team's get_running_team(team_key), or list_teams' "key in app.teams".
ReadTeam(team_key) ==
    /\ pc \in {"sort", "build"}
    /\ seen' = [read |-> TRUE, key |-> team_key,
                team |-> get_running_team(teams, team_key),
                before |-> get_running_team(pre, team_key),
                after |-> get_running_team(CHOOSE t \in RebuildResults : TRUE, team_key)]
    /\ UNCHANGED <<appVars, sortVars, sessVars, pc, cur, order, pre>>

NextConc ==
    \/ BeginAgentCall
    \/ BeginTeamCall
    \/ RbClear
    \/ RbSort
    \/ RbBuild
    \/ Return
    \/ \E k \in TeamPool : ReadTeam(k)

SpecConc == InitConc /\ [][NextConc]_vars

\* ------------------------------------------------------------ SpecSession
\* The session store (src/session_manager.py).  A session id is a string,
\* modelled as the sequence of its characters; a session file is keyed by
\* the id in its name.
MaxIdLen == 2
TickHours == 12
MaxClock == 36
\* The entries of a session's history.
MaxHistory == 3
ExpirationHours == 24

IdChars == {"a", "-", "/"}
\* the characters of IdChars for which str.isalnum() is true
AlnumChars == {"a"}
SessionIds == SeqsUpTo(IdChars, MaxIdLen)
\* the identifiers uuid4 may hand out
UuidPool == {<<"a", "-">>, <<"-", "a">>}

\* A stored document: a session as save_session writes it, or a file whose
\* content was damaged from outside:
\*   "badjson"  does not parse as JSON (an empty or cut-off file included);
\*   "nots"     parses to a dict without created_at;
\*   "badts"    parses to a dict whose created_at is no ISO-8601 string;
\*   "naive"    parses to a dict whose created_at carries no UTC offset;
\*   "number"   parses to a JSON number other than 0.
SessionDoc(created_at, history) ==
    [kind |-> "session", created_at |-> created_at, history |-> history]
DamagedKinds == {"badjson", "nots", "badts", "naive", "number"}
DamagedDoc(kind) == [kind |-> kind, created_at |-> 0, history |-> <<>>]
NoDoc == [kind |-> "none", created_at |-> 0, history |-> <<>>]

\* _get_path: all(c.isalnum() or c in '-_' for c in session_id), else ValueError
get_path_ok(session_id) ==
    \A i \in 1..Len(session_id) :
        session_id[i] \in AlnumChars \/ session_id[i] \in {"-", "_"}

\* The loop of _cleanup_old_sessions over the files in glob order.  An
\* expired session is unlinked; so is a file that lacks created_at or that
\* raises JSONDecodeError, IOError or ValueError.  A TypeError ("created_at"
\* in a number, aware minus naive datetime) is caught by none of the loop's
\* handlers and leaves the loop.
RECURSIVE cleanup_loop(_, _, _)
cleanup_loop(files, st, clock) ==
    IF files = <<>> THEN [store |-> st, raised |-> FALSE]
    ELSE LET f == Head(files)
             d == st[f]
         IN  IF d.kind = "session"
             THEN cleanup_loop(Tail(files),
                               IF clock - d.created_at > ExpirationHours
                               THEN MapDel(st, f) ELSE st,
                               clock)
             ELSE IF d.kind \in {"badjson", "nots", "badts"}
             THEN cleanup_loop(Tail(files), MapDel(st, f), clock)
             ELSE [store |-> st, raised |-> TRUE]

\* Variant: without the outer "except Exception", the loop's error leaves the
\* sweep.
cleanup_old_sessions_reraise(files, st, clock) == cleanup_loop(files, st, clock)

\* _cleanup_old_sessions: the outer handler logs whatever left the loop.
cleanup_old_sessions(files, st, clock) ==
    [store |-> cleanup_loop(files, st, clock).store, raised |-> FALSE]

GlobOrders(st) ==
    {p \in [1..Cardinality(DOMAIN st) -> DOMAIN st] : Range(p) = DOMAIN st}

\* What the file system does with a write: it succeeds, open(path, 'w')
\* fails (the file is left as it was), or json.dump fails after the open
\* (the file is left cut off).
IoOutcomes == {"ok", "open_fails", "dump_fails"}

\* Variant: the handler of save_session logs the error and does not re-raise.
save_session_swallow(st, session_id, data, io) ==
    IF ~get_path_ok(session_id) THEN [raised |-> FALSE, store |-> st]
    ELSE IF io = "open_fails" THEN [raised |-> FALSE, store |-> st]
    ELSE IF io = "dump_fails"
    THEN [raised |-> FALSE, store |-> MapSet(st, session_id, DamagedDoc("badjson"))]
    ELSE [raised |-> FALSE, store |-> MapSet(st, session_id, data)]

\* save_session: the document is written under the id's path; a malformed
\* id (ValueError) and a failed write (IOError) are logged and re-raised.
save_session(st, session_id, data, io) ==
    IF ~get_path_ok(session_id) THEN [raised |-> TRUE, store |-> st]
    ELSE IF io = "open_fails" THEN [raised |-> TRUE, store |-> st]
    ELSE IF io = "dump_fails"
    THEN [raised |-> TRUE, store |-> MapSet(st, session_id, DamagedDoc("badjson"))]
    ELSE [raised |-> FALSE, store |-> MapSet(st, session_id, data)]

\* f"Session initiated with context: {initial_context}"
SystemContent(initial_context) == <<"Session initiated with context: ", initial_context>>

\* "<None>" is the absent argument.
ContextInputs == {"<None>", "", "ctx"}

\* Variant: "if initial_context is not None" in place of "if initial_context".
InitialHistory_notnone(initial_context) ==
    IF initial_context # "<None>"
    THEN <<[role |-> "system", content |-> SystemContent(initial_context)]>>
    ELSE <<>>

\* "history": [], then the system entry "if initial_context".
InitialHistory(initial_context) ==
    IF initial_context \notin {"<None>", ""}
    THEN <<[role |-> "system", content |-> SystemContent(initial_context)]>>
    ELSE <<>>

\* create_session (through the start_session tool): sweep, then write the
\* new document under a fresh uuid.
create_session(initial_context, session_id, glob, io) ==
    LET sweep == cleanup_old_sessions(glob, store, now)
        session_data == SessionDoc(now, InitialHistory(initial_context))
        saved == save_session(sweep.store, session_id, session_data, io)
    IN  /\ store' = IF sweep.raised THEN sweep.store ELSE saved.store
        /\ gone' = gone \cup (DOMAIN store \ DOMAIN sweep.store)
        /\ made' = [called |-> TRUE, id |-> session_id, context |-> initial_context,
                    raised |-> sweep.raised \/ saved.raised, fresh |-> TRUE,
                    doc |-> session_data]
        /\ UNCHANGED <<now, load_out, wr, task, task2, ran, appVars, sortVars, concVars>>

\* load_session: None for a malformed id (the ValueError of _get_path is
\* caught at line 78), for a missing file and for a file that does not
\* parse; else whatever the file parses to.
load_result(st, session_id) ==
    IF ~get_path_ok(session_id) THEN [result |-> "None", doc |-> NoDoc]
    ELSE IF session_id \notin DOMAIN st THEN [result |-> "None", doc |-> NoDoc]
    ELSE IF st[session_id].kind = "badjson" THEN [result |-> "None", doc |-> NoDoc]
    ELSE [result |-> "document", doc |-> st[session_id]]

load_session(session_id) ==
    /\ load_out' = [called |-> TRUE, id |-> session_id,
                    result |-> load_result(store, session_id).result,
                    doc |-> load_result(store, session_id).doc]
    /\ UNCHANGED <<store, now, made, gone, wr, task, task2, ran, appVars, sortVars, concVars>>

\* A session file is damaged from outside the program.
Damage(session_id, kind) ==
    /\ session_id \in DOMAIN store
    /\ store' = [store EXCEPT ![session_id] = DamagedDoc(kind)]
    /\ made' = [made EXCEPT !.fresh = FALSE]
    /\ UNCHANGED <<now, load_out, gone, wr, task, task2, ran, appVars, sortVars, concVars>>

Tick ==
    /\ now + TickHours <= MaxClock
    /\ now' = now + TickHours
    /\ made' = [made EXCEPT !.fresh = FALSE]
    /\ UNCHANGED <<store, load_out, gone, wr, task, task2, ran, appVars, sortVars, concVars>>

InitSession ==
    /\ SortIdle
    /\ ConcIdle
    /\ SessIdle
    /\ factory = TRUE
    /\ agents = EmptyMap
    /\ teams_config = <<>>
    /\ disk_agents = agents
    /\ disk_teams = teams_config
    /\ teams = EmptyMap
    /\ last = Outcome("init", "success", <<>>)

\* uuid4 never hands out an identifier twice.
FreshIds == UuidPool \ (DOMAIN store \cup gone)

NextSession ==
    \/ \E c \in ContextInputs, id \in FreshIds, g \in GlobOrders(store) :
          create_session(c, id, g, "ok")
    \/ \E id \in SessionIds : load_session(id)
    \/ \E id \in UuidPool, k \in DamagedKinds : Damage(id, k)
    \/ Tick

SpecSession == InitSession /\ [][NextSession]_vars

\* ----------------------------------------------------------------------
\* SpecSweep: create_session over a storage directory drawn at the start:
\* up to three older files, each a session of some age or a damaged file,
\* swept in any glob order; then the loads that follow.
OldIds == {<<"a">>, <<"-">>, <<"a", "a">>}
ClockValues == {t \in 0..MaxClock : t % TickHours = 0}
OldDocs ==
    {SessionDoc(t, <<>>) : t \in ClockValues} \cup {DamagedDoc(k) : k \in DamagedKinds}
OldStores == UNION {[ids -> OldDocs] : ids \in SUBSET OldIds}

InitSweep ==
    /\ SortIdle
    /\ ConcIdle
    /\ store \in OldStores
    /\ now = MaxClock
    /\ load_out = NotLoaded
    /\ made = NotMade
    /\ gone = {}
    /\ wr = NotWriting
    /\ task = NoTask
    /\ task2 = NoTask
    /\ ran = NotRan
    /\ factory = TRUE
    /\ agents = EmptyMap
    /\ teams_config = <<>>
    /\ disk_agents = agents
    /\ disk_teams = teams_config
    /\ teams = EmptyMap
    /\ last = Outcome("init", "success", <<>>)

NextSweep ==
    \/ \E c \in ContextInputs, id \in FreshIds, g \in GlobOrders(store) :
          /\ ~made.called
          /\ create_session(c, id, g, "ok")
    \/ \E id \in OldIds \cup UuidPool : made.called /\ load_session(id)

SpecSweep == InitSweep /\ [][NextSweep]_vars

\* ----------------------------------------------------------------------
\* SpecSave: save_session taken statement by statement, with the readers of
\* another thread or process on the same storage directory in between.
\* open(path, 'w') leaves an empty file, json.dump then fills it; until the
\* dump is complete the file does not parse.

\* Variant: the assistant turn appended before the user turn.
WithTurns_swapped(doc, prompt, content) ==
    [doc EXCEPT !.history = @ \o <<[role |-> "assistant", content |-> <<content>>],
                                    [role |-> "user", content |-> <<prompt>>]>>]

\* What run_ai_team appends after a successful run (main.py lines 400-401).
WithTurns(doc, prompt, content) ==
    [doc EXCEPT !.history = @ \o <<[role |-> "user", content |-> <<prompt>>],
                                    [role |-> "assistant", content |-> <<content>>]>>]

\* line 85: open(path, 'w') truncates the file.
SaveOpen(session_id, data) ==
    /\ wr.pc = "idle"
    /\ get_path_ok(session_id)
    /\ wr' = [pc |-> "open", id |-> session_id,
              old |-> IF session_id \in DOMAIN store THEN store[session_id] ELSE NoDoc,
              new |-> data]
    /\ store' = MapSet(store, session_id, DamagedDoc("badjson"))
    /\ made' = [made EXCEPT !.fresh = FALSE]
    /\ UNCHANGED <<now, load_out, gone, task, task2, ran, appVars, sortVars, concVars>>

\* line 86 and the end of the with block: the dump completes and the file is
\* closed.  If a sweep unlinked the path meanwhile the data went to a file
\* that no longer has a name.
SaveWrite ==
    /\ wr.pc = "open"
    /\ store' = IF wr.id \in DOMAIN store THEN MapSet(store, wr.id, wr.new) ELSE store
    /\ wr' = NotWriting
    /\ UNCHANGED <<now, load_out, made, gone, task, task2, ran, appVars, sortVars, concVars>>

\* The documents a run_ai_team call on another thread saves: a stored session
\* with one more exchange.
NextSave ==
    \/ \E id \in DOMAIN store :
          /\ store[id].kind = "session"
          /\ Len(store[id].history) + 2 <= MaxHistory
          /\ SaveOpen(id, WithTurns(store[id], "p", "res"))
    \/ SaveWrite
    \/ \E id \in UuidPool : load_session(id)
    \/ \E c \in ContextInputs, id \in FreshIds, g \in GlobOrders(store) :
          create_session(c, id, g, "ok")
    \/ Tick

SpecSave == InitSession /\ [][NextSave]_vars

\* ----------------------------------------------------------------------
\* SpecRun: run_ai_team in two steps, up to "await team.arun(...)" and from
\* there to its return; while the call is suspended other tools run.
\* What the call ends with: "completed" and "error" are the JSON results it
\* returns, "raised" is an exception leaving the tool function.
RunReturn(status, result, saved) ==
    [called |-> TRUE, status |-> status, result |-> result, saved |-> saved]

\* main.py lines 357-393.  <<>> is the absent (or empty) session_id.  A
\* loaded document that is no dict fails at session_data.get, outside the try.
RunBegin(team_name, prompt, session_id) ==
    /\ task.pc = "idle"
    /\ LET team == get_running_team(teams, team_name)
           l == load_result(store, session_id)
       IN  IF ~factory \/ team = NoTeam
           THEN /\ ran' = RunReturn("error", "unavailable", FALSE)
                /\ task' = task
           ELSE IF session_id # <<>> /\ l.result = "document" /\ l.doc.kind = "number"
           THEN /\ ran' = RunReturn("raised", "AttributeError", FALSE)
                /\ task' = task
           ELSE /\ task' = [pc |-> "running", team |-> team_name, id |-> session_id,
                            prompt |-> prompt,
                            session_data |-> IF session_id # <<>> THEN l.doc ELSE NoDoc]
                /\ ran' = ran
    /\ UNCHANGED <<store, now, load_out, made, gone, wr, task2, appVars, sortVars, concVars>>

\* Variant: no "except Exception" around the run.
RunEnd_nocatch(outcome, io) ==
    /\ task.pc = "running"
    /\ IF outcome = "raise"
       THEN /\ ran' = RunReturn("raised", "exception", FALSE)
            /\ UNCHANGED <<store, made>>
       ELSE IF task.session_data # NoDoc
       THEN /\ store' = save_session(store, task.id,
                                     WithTurns(task.session_data, task.prompt, "res"),
                                     io).store
            /\ made' = [made EXCEPT !.fresh = FALSE]
            /\ ran' = RunReturn("completed", "res", TRUE)
       ELSE /\ ran' = RunReturn("completed", "res", FALSE)
            /\ UNCHANGED <<store, made>>
    /\ task' = NoTask
    /\ UNCHANGED <<now, load_out, gone, wr, task2, appVars, sortVars, concVars>>

\* Variant: the history is saved in a "finally", also after a failed run.
RunEnd_savealways(outcome, io) ==
    /\ task.pc = "running"
    /\ IF task.session_data # NoDoc
       THEN LET content == IF outcome = "raise" THEN "exception" ELSE "res"
                saved == save_session(store, task.id,
                                      WithTurns(task.session_data, task.prompt, content),
                                      io)
            IN  /\ store' = saved.store
                /\ made' = [made EXCEPT !.fresh = FALSE]
                /\ ran' = RunReturn(IF saved.raised \/ outcome = "raise"
                                    THEN "error" ELSE "completed",
                                    content, ~saved.raised)
       ELSE /\ ran' = RunReturn(IF outcome = "raise" THEN "error" ELSE "completed",
                                IF outcome = "raise" THEN "exception" ELSE "res", FALSE)
            /\ UNCHANGED <<store, made>>
    /\ task' = NoTask
    /\ UNCHANGED <<now, load_out, gone, wr, task2, appVars, sortVars, concVars>>

\* main.py lines 394-406: the run returns or raises; after a return the two
\* turns are appended to the document loaded at the start and it is saved.
RunEnd(outcome, io) ==
    /\ task.pc = "running"
    /\ IF outcome = "raise"
       THEN /\ ran' = RunReturn("error", "exception", FALSE)
            /\ UNCHANGED <<store, made>>
       ELSE IF task.session_data # NoDoc
       THEN LET saved == save_session(store, task.id,
                                      WithTurns(task.session_data, task.prompt, "res"),
                                      io)
            IN  /\ store' = saved.store
                /\ made' = [made EXCEPT !.fresh = FALSE]
                /\ ran' = RunReturn(IF saved.raised THEN "error" ELSE "completed",
                                    "res", ~saved.raised)
       ELSE /\ ran' = RunReturn("completed", "res", FALSE)
            /\ UNCHANGED <<store, made>>
    /\ task' = NoTask
    /\ UNCHANGED <<now, load_out, gone, wr, task2, appVars, sortVars, concVars>>

InitRun ==
    /\ SortIdle
    /\ ConcIdle
    /\ SessIdle
    /\ factory = TRUE
    /\ agents = [k \in AgentPool |-> "r1"]
    /\ teams_config = <<[key |-> "T1", members |-> <<"A1">>]>>
    /\ disk_agents = agents
    /\ disk_teams = teams_config
    /\ \E r \in Reinits(teams_config, agents, EmptyMap) :
          /\ teams = r.teams
          /\ last = Outcome("init", "success", <<CallObs(teams_config, EmptyMap, r)>>)

RunSessionIds == UuidPool \cup {<<>>, <<"/">>}
HasRoom(session_id) ==
    session_id \in DOMAIN store => Len(store[session_id].history) + 2 <= MaxHistory

\* The sessions are started with a context; the files are damaged into a
\* dict without created_at or into a number.
RunContexts == {"ctx"}
RunDamage == {"nots", "number"}

NextRun ==
    \/ \E c \in RunContexts, id \in FreshIds, g \in GlobOrders(store) :
          create_session(c, id, g, "ok")
    \/ \E t \in TeamPool, id \in RunSessionIds : HasRoom(id) /\ RunBegin(t, "p", id)
    \/ \E o \in {"return", "raise"} : RunEnd(o, "ok")
    \/ \E id \in UuidPool, k \in RunDamage : Damage(id, k)
    \/ Tick

SpecRun == InitRun /\ [][NextRun]_vars

\* ----------------------------------------------------------------------
\* SpecIO: the session tools over a storage directory whose writes may fail.
NextIO ==
    \/ \E c \in RunContexts, id \in FreshIds, g \in GlobOrders(store), io \in IoOutcomes :
          create_session(c, id, g, io)
    \/ \E t \in TeamPool, id \in RunSessionIds : HasRoom(id) /\ RunBegin(t, "p", id)
    \/ \E o \in {"return", "raise"}, io \in IoOutcomes : RunEnd(o, io)

SpecIO == InitRun /\ [][NextIO]_vars

\* ----------------------------------------------------------------------
\* SpecRace: two run_ai_team calls on one event loop.  Each call is suspended
\* at "await team.arun(...)" holding the document it loaded (session_data is
\* a local of the call), so a second call can load the same session before
\* the first one saves.
\* main.py lines 357-393, for the second call.
RunBegin2(team_name, prompt, session_id) ==
    /\ task2.pc = "idle"
    /\ LET team == get_running_team(teams, team_name)
           l == load_result(store, session_id)
       IN  IF ~factory \/ team = NoTeam
           THEN /\ ran' = RunReturn("error", "unavailable", FALSE)
                /\ task2' = task2
           ELSE IF session_id # <<>> /\ l.result = "document" /\ l.doc.kind = "number"
           THEN /\ ran' = RunReturn("raised", "AttributeError", FALSE)
                /\ task2' = task2
           ELSE /\ task2' = [pc |-> "running", team |-> team_name, id |-> session_id,
                             prompt |-> prompt,
                             session_data |-> IF session_id # <<>> THEN l.doc ELSE NoDoc]
                /\ ran' = ran
    /\ UNCHANGED <<store, now, load_out, made, gone, wr, task, appVars, sortVars, concVars>>

\* main.py lines 394-406, for the second call.
RunEnd2(outcome, io) ==
    /\ task2.pc = "running"
    /\ IF outcome = "raise"
       THEN /\ ran' = RunReturn("error", "exception", FALSE)
            /\ UNCHANGED <<store, made>>
       ELSE IF task2.session_data # NoDoc
       THEN LET saved == save_session(store, task2.id,
                                      WithTurns(task2.session_data, task2.prompt, "res"),
                                      io)
            IN  /\ store' = saved.store
                /\ made' = [made EXCEPT !.fresh = FALSE]
                /\ ran' = RunReturn(IF saved.raised THEN "error" ELSE "completed",
                                    "res", ~saved.raised)
       ELSE /\ ran' = RunReturn("completed", "res", FALSE)
            /\ UNCHANGED <<store, made>>
    /\ task2' = NoTask
    /\ UNCHANGED <<now, load_out, gone, wr, task, appVars, sortVars, concVars>>

NextRace ==
    \/ \E c \in RunContexts, id \in FreshIds, g \in GlobOrders(store) :
          create_session(c, id, g, "ok")
    \/ \E t \in TeamPool, id \in RunSessionIds : HasRoom(id) /\ RunBegin(t, "p", id)
    \/ \E o \in {"return", "raise"} : RunEnd(o, "ok")
    \/ \E t \in TeamPool, id \in RunSessionIds : HasRoom(id) /\ RunBegin2(t, "q", id)
    \/ \E o \in {"return", "raise"} : RunEnd2(o, "ok")

SpecRace == InitRun /\ [][NextRace]_vars

\* ------------------------------------------------ properties of the sorter
PosIn(sorted, k) == CHOOSE i \in 1..Len(sorted) : sorted[i] = k
\* The keys on a cycle or reachable from one along dependency -> dependent edges.
Tainted(cfg) == ReachSet(cfg, {k \in KeysOf(cfg) : OnCycle(cfg, k)}, Len(cfg))
RECURSIVE Dedup(_, _)
Dedup(members, had) ==
    IF members = <<>> THEN <<>>
    ELSE IF Head(members) \in had THEN Dedup(Tail(members), had)
    ELSE <<Head(members)>> \o Dedup(Tail(members), had \cup {Head(members)})
\* The definitions with every member that is no team key dropped and every
\* repeated member dropped.
TeamMembersOnly(cfg) ==
    [i \in 1..Len(cfg) |->
        [key |-> cfg[i].key,
         members |-> Dedup(SelectSeq(cfg[i].members, LAMBDA m : m \in KeysOf(cfg)), {})]]

\* C2: for an acyclic definition mapping the sort succeeds, the order holds
\* every team key once, every team comes after each member that is a team
\* key, and the order is the one obtained with the agent keys, undefined keys
\* and repeated members removed from the member lists.
C2_AcyclicOrder ==
    (run1.done /\ ~HasCycle(sort_cfg)) =>
        /\ run1.sort.ok
        /\ Len(run1.sort.order) = Len(sort_cfg)
        /\ Range(run1.sort.order) = KeysOf(sort_cfg)
        /\ \A a, b \in KeysOf(sort_cfg) :
              DependsOn(sort_cfg, a, b) =>
                  PosIn(run1.sort.order, b) < PosIn(run1.sort.order, a)
        /\ \A ord \in HashOrders(SortPool) :
              topological_sort(TeamMembersOnly(sort_cfg), ord) = run1.sort

C2_Witness ==
    /\ run1.done
    /\ ~HasCycle(sort_cfg)
    /\ run1.sort.order # KeySeq(sort_cfg)
    /\ \E i \in 1..Len(sort_cfg) : \E k \in KeysOf(sort_cfg) : sort_cfg[i].members = <<k, k>>
    /\ \E i \in 1..Len(sort_cfg) :
          /\ Len(sort_cfg[i].members) = 1
          /\ sort_cfg[i].members[1] \notin KeysOf(sort_cfg)

\* C3: for a definition mapping with a cycle the sort fails, and the keys it
\* names are exactly the keys on a cycle or reachable from one.
C3_CycleNodesExact ==
    (run1.done /\ HasCycle(sort_cfg)) =>
        /\ ~run1.sort.ok
        /\ run1.sort.cycle_nodes = Tainted(sort_cfg)

C3_Witness ==
    /\ run1.done
    /\ HasCycle(sort_cfg)
    /\ Len(sort_cfg) = 3
    /\ \E k \in KeysOf(sort_cfg) : k \in run1.sort.cycle_nodes /\ ~OnCycle(sort_cfg, k)
    /\ \E k \in KeysOf(sort_cfg) : k \notin run1.sort.cycle_nodes

\* C9: two rebuilds of the same definitions give the same sort outcome (the
\* same build order) and the same registry, whatever the iteration order of
\* the dependency sets and whatever registry was there before.
C9_Deterministic ==
    (run1.done /\ run2.done) =>
        /\ run1.sort = run2.sort
        /\ run1.reinit = run2.reinit

C9_Witness ==
    /\ run1.done
    /\ run2.done
    /\ run1.sort.ok
    /\ \E i \in 1..Len(sort_cfg) : Cardinality(Dependencies(sort_cfg, i)) = 2
    /\ Cardinality(DOMAIN run2.reinit.teams) = 3

\* --- the builder's outcome, independently of the build order
\* a team that cannot be built even with all its member teams built: it
\* lists members, none of them a team key or a defined agent
FailsAlone(cfg, ag, k) ==
    /\ MembersOf(cfg, k) # <<>>
    /\ \A m \in Range(MembersOf(cfg, k)) : m \notin KeysOf(cfg) /\ m \notin DOMAIN ag
\* those teams and the teams that depend on them, directly or not
KeptOut(cfg, ag) ==
    ReachSet(cfg, {k \in KeysOf(cfg) : FailsAlone(cfg, ag, k)}, Len(cfg))

\* C17: a rebuild of definitions without a cycle returns True with a registry
\* that lacks the teams that fail alone and their direct and indirect
\* dependents, and holds every other team.
C17_FailureIsLocal ==
    (run1.done /\ ~HasCycle(sort_cfg)) =>
        /\ run1.reinit.ok
        /\ DOMAIN run1.reinit.teams = KeysOf(sort_cfg) \ KeptOut(sort_cfg, sort_agents)

C17_Witness ==
    /\ run1.done
    /\ ~HasCycle(sort_cfg)
    /\ Len(sort_cfg) = 3
    /\ FailsAlone(sort_cfg, sort_agents, run1.sort.order[1])
    /\ \E d \in KeysOf(sort_cfg) :
          /\ DependsOn(sort_cfg, d, run1.sort.order[1])
          /\ d \notin DOMAIN run1.reinit.teams
    /\ run1.sort.order[2] \in DOMAIN run1.reinit.teams

\* the members of a team that resolved to a participant in a registry
Resolved(cfg, ag, registry, k) ==
    {m \in Range(MembersOf(cfg, k)) :
        IF m \in KeysOf(cfg) THEN m \in DOMAIN registry ELSE m \in DOMAIN ag}

\* C19: in a rebuild that reaches the build loop, a team that lists members
\* of which none resolves has no registry entry, and a team that lists no
\* member has one, with no participants.
C19_EmptyTeamBuilt ==
    (run1.done /\ run1.sort.ok) =>
        \A k \in KeysOf(sort_cfg) :
            IF MembersOf(sort_cfg, k) = <<>>
            THEN /\ k \in DOMAIN run1.reinit.teams
                 /\ run1.reinit.teams[k] = TeamParticipant(k, <<>>)
            ELSE Resolved(sort_cfg, sort_agents, run1.reinit.teams, k) = {}
                     => k \notin DOMAIN run1.reinit.teams

C19_Witness ==
    /\ run1.done
    /\ run1.sort.ok
    /\ \E k \in DOMAIN run1.reinit.teams : MembersOf(sort_cfg, k) = <<>>
    /\ \E k \in KeysOf(sort_cfg) :
          /\ MembersOf(sort_cfg, k) # <<>>
          /\ Range(MembersOf(sort_cfg, k)) \cap KeysOf(sort_cfg) = {}
          /\ k \notin DOMAIN run1.reinit.teams

\* ------------------------------------------- properties of the tool calls
Calls == {last.calls[i] : i \in 1..Len(last.calls)}
FreshRegistries == {r.teams : r \in Reinits(teams_config, agents, teams)}
HasMissingMember(cfg, ag, k) ==
    \E m \in Range(MembersOf(cfg, k)) : m \notin KeysOf(cfg) /\ m \notin DOMAIN ag

\* C1: a reinitialize_teams call that detects a cycle leaves the registry as
\* it was before the call.
C1_RegistryKeptOnCycle == \A c \in Calls : c.cycle => c.kept

\* C4: after a rebuild, a team that lists a member that is neither a team key
\* nor an agent key has no registry entry, and neither has any team that
\* depends on it, directly or through other teams.
C4_MissingMemberNotBuilt ==
    (last.calls # <<>> /\ last.calls[Len(last.calls)].ok) =>
        \A k \in KeysOf(teams_config) :
            HasMissingMember(teams_config, agents, k) =>
                \A d \in ReachSet(teams_config, {k}, Len(teams_config)) :
                    d \notin DOMAIN teams

\* C5: after every tool call the registry is the one a full rebuild of the
\* current definitions produces.
C5_RegistryIsFresh == FreshRegistries = {teams}

\* C6: when the rebuild inside create_team or update_team reports failure,
\* the call ends as a rolled-back error and the team definitions, in memory
\* and in teams.json, are what they were before the call.
C6_RollbackRestoresConfig ==
    [][(/\ last'.op \in {"create_team", "update_team"}
        /\ last'.calls # <<>>
        /\ ~last'.calls[1].ok)
          => (/\ last'.status = "rolled_back"
              /\ teams_config' = teams_config
              /\ disk_teams' = disk_teams
              /\ disk_teams' = teams_config')]_vars

C6_Witness ==
    /\ factory
    /\ last.op = "update_team"
    /\ last.status = "rolled_back"
    /\ Len(teams_config) = 2
    /\ \E k \in KeysOf(teams_config) : MembersOf(teams_config, k) # <<>>

\* C8: with the factory available, reinitialize_teams returns False exactly
\* when the definitions contain a cycle or when at least one team is defined
\* and none was built.
C8_FailureExactly ==
    factory =>
        \A c \in Calls : (~c.ok) <=> (c.cyclic \/ (c.defined >= 1 /\ c.built = 0))

HasForeignChar(session_id) ==
    \E i \in 1..Len(session_id) : session_id[i] \notin {"a", "-", "_"}

\* C10: load_session of an identifier with a character outside letters,
\* digits, hyphen and underscore ends in an invalid-identifier error, not in
\* the None a missing session gives.
C10_InvalidIdRejected ==
    (load_out.called /\ HasForeignChar(load_out.id)) => load_out.result = "ValueError"

\* C11: while a save_session of a session id is in progress, a load_session
\* of that id returns the complete previous document or the complete new
\* one, and a sweep leaves the file in place.
C11_SaveAtomicForReaders ==
    [][(wr.pc = "open")
         => /\ (load_out' # load_out /\ load_out'.id = wr.id)
                  => load_out'.doc \in {wr.old, wr.new}
            /\ wr.id \in DOMAIN store']_vars

\* The history a document holds for the context its creation was given: as
\* the claim words it (any context that was passed), and with the empty
\* string counted as no context.
HistoryAsGiven(doc, context) ==
    IF context = "<None>" THEN doc.history = <<>>
    ELSE Len(doc.history) = 1 /\ doc.history[1].role = "system"
HistoryAsNonEmpty(doc, context) ==
    IF context \in {"<None>", ""} THEN doc.history = <<>>
    ELSE /\ Len(doc.history) = 1
         /\ doc.history[1] = [role |-> "system", content |-> SystemContent(context)]

\* C12 as stated: a load_session that directly follows create_session, with
\* the returned id, returns the created document; its history is empty when
\* no context was passed and one system entry when one was passed; its
\* timestamp is a UTC timestamp that parses.
C12_CreateThenLoad_stated ==
    [][(made.fresh /\ load_out' # load_out /\ load_out'.id = made.id)
         => /\ load_out'.result = "document"
            /\ load_out'.doc = made.doc
            /\ load_out'.doc.kind = "session"
            /\ load_out'.doc.created_at = now
            /\ HistoryAsGiven(load_out'.doc, made.context)]_vars

\* C12, amended: the same, with one system entry exactly when a non-empty
\* context was passed.
C12_CreateThenLoad ==
    [][(made.fresh /\ load_out' # load_out /\ load_out'.id = made.id)
         => /\ load_out'.result = "document"
            /\ load_out'.doc = made.doc
            /\ load_out'.doc.kind = "session"
            /\ load_out'.doc.created_at = now
            /\ HistoryAsNonEmpty(load_out'.doc, made.context)]_vars

C12_Witness ==
    /\ made.fresh
    /\ made.context = "ctx"
    /\ load_out.called
    /\ load_out.id = made.id
    /\ load_out.result = "document"
    /\ Len(load_out.doc.history) = 1
    /\ DOMAIN store # {made.id}

\* a step of create_session
CreateStep == made'.called /\ made'.id # made.id

\* C13: a sweep unlinks every stored session older than 24 hours, whatever
\* else the directory holds, and leaves every session of at most 24 hours
\* as it is.
C13_SweepRemovesExpired ==
    [][CreateStep =>
          \A id \in DOMAIN store :
              store[id].kind = "session" =>
                  IF now - store[id].created_at > ExpirationHours
                  THEN id \notin DOMAIN store'
                  ELSE id \in DOMAIN store' /\ store'[id] = store[id]]_vars

\* C14: a sweep unlinks every stored file that is no valid JSON, lacks
\* created_at or has a created_at that does not parse, whatever else the
\* directory holds; a load_session of an unlinked id then returns None.
C14_SweepRemovesInvalid ==
    [][/\ CreateStep =>
             \A id \in DOMAIN store :
                 store[id].kind \in {"badjson", "nots", "badts"} => id \notin DOMAIN store'
       /\ (load_out' # load_out /\ load_out'.id \in gone) => load_out'.result = "None"]_vars

\* C20: whatever the directory holds, create_session returns without
\* raising with its document stored under the new id, and a load_session of
\* that id returns that document.
C20_CreateNeverBlocked ==
    [][/\ CreateStep =>
             /\ ~made'.raised
             /\ made'.id \in DOMAIN store'
             /\ store'[made'.id] = made'.doc
       /\ (made.called /\ load_out' # load_out /\ load_out'.id = made.id)
             => (load_out'.result = "document" /\ load_out'.doc = made.doc)]_vars

C20_Witness ==
    /\ made.called
    /\ ~made.raised
    /\ load_out.id = made.id
    /\ load_out.result = "document"
    /\ \E id \in DOMAIN store : store[id].kind \in {"naive", "number"}
    /\ \E id \in DOMAIN store : store[id].kind \in {"badjson", "nots", "badts"}
    /\ Cardinality(DOMAIN store) = 4

\* ------------------------------------------------ properties of run_ai_team
\* a step in which the suspended run_ai_team call resumes and returns
RunEndStep == task.pc = "running" /\ task'.pc = "idle"

\* C15: when the call loaded a session at its start and the team run
\* returns, the call completes and the stored history is the loaded history,
\* then the user turn with the prompt, then the assistant turn with the
\* run's result.
C15_HistoryAppended ==
    [][(RunEndStep /\ ran'.result = "res" /\ task.session_data # NoDoc)
         => /\ ran'.status = "completed"
            /\ task.id \in DOMAIN store'
            /\ store'[task.id].history =
                  task.session_data.history \o
                      <<[role |-> "user", content |-> <<task.prompt>>],
                        [role |-> "assistant", content |-> <<ran'.result>>]>>]_vars

C15_Witness ==
    /\ ran.status = "completed"
    /\ ran.saved
    /\ task.pc = "idle"
    /\ \E id \in DOMAIN store :
          /\ store[id].kind = "session"
          /\ Len(store[id].history) = 3
          /\ store[id].history[1].role = "system"

\* C16: a team run that raises ends the call with an error result; no
\* resumed call ends with an exception leaving the tool.
C16_RunFailureCaught ==
    [][RunEndStep =>
          /\ ran'.status \in {"completed", "error"}
          /\ ran'.result = "exception" => ran'.status = "error"]_vars

C16_Witness ==
    /\ ran.called
    /\ ran.status = "error"
    /\ ran.result = "exception"
    /\ task.pc = "idle"

\* C18: a session id whose file a sweep has unlinked has no file again.
C18_RemovedStaysRemoved == \A id \in gone : id \notin DOMAIN store

\* C21: a failed write in save_session reaches the caller.  start_session
\* ends with an error exactly when the new document is not in the store, and
\* a run_ai_team call whose team run returned on a loaded session ends as
\* "completed" when the document with the two turns is stored and as "error"
\* when it is not.
Stored(st, session_id, doc) == session_id \in DOMAIN st /\ st[session_id] = doc
StartStep ==
    /\ made'.called
    /\ task' = task
    /\ ran' = ran
    /\ made' # made \/ store' # store
C21_WriteFailureSurfaces ==
    [][/\ StartStep => (made'.raised <=> ~Stored(store', made'.id, made'.doc))
       /\ (RunEndStep /\ ran'.result = "res" /\ task.session_data # NoDoc)
             => ran'.status =
                  IF Stored(store', task.id,
                            WithTurns(task.session_data, task.prompt, "res"))
                  THEN "completed" ELSE "error"]_vars
\* A start_session call has ended with an error and the history of a
\* returned run was not saved.
C21_Witness ==
    /\ made.called /\ made.raised
    /\ ran.called /\ ran.status = "error" /\ ran.result = "res"

\* C22: the stored history of a session only grows by appending: in every
\* step, the history a session had is a prefix of the history it has after.
IsPrefix(a, b) == Len(a) <= Len(b) /\ SubSeq(b, 1, Len(a)) = a
C22_HistoryOnlyGrows ==
    [][\A id \in DOMAIN store \cap DOMAIN store' :
          (store[id].kind = "session" /\ store'[id].kind = "session")
             => IsPrefix(store[id].history, store'[id].history)]_vars

\* C23: after a completed rebuild every registry key is a key of the team
\* definitions, and every member of a registered team that is a team key is
\* itself registered.
ClosedRegistry(cfg, registry) ==
    /\ DOMAIN registry \subseteq KeysOf(cfg)
    /\ \A k \in DOMAIN registry :
          \A m \in Range(MembersOf(cfg, k)) :
              m \in KeysOf(cfg) => m \in DOMAIN registry
C23_RegistryClosed ==
    /\ run1.done => ClosedRegistry(sort_cfg, run1.reinit.teams)
    /\ run2.done => ClosedRegistry(sort_cfg, run2.reinit.teams)
\* A second rebuild returned True with a team registered beside its member
\* team, and another team kept out of the registry.
C23_Witness ==
    /\ run2.done
    /\ run2.reinit.ok
    /\ \E k \in DOMAIN run2.reinit.teams :
          \E m \in Range(MembersOf(sort_cfg, k)) : m \in DOMAIN run2.reinit.teams
    /\ KeysOf(sort_cfg) \ DOMAIN run2.reinit.teams # {}

\* C24: after every tool call, also one that ended with a failed file write,
\* each mapping in memory is the mapping in its file, and the registry is the
\* one a rebuild of the definitions in memory produces.
C24_MemoryMatchesDisk ==
    /\ agents = disk_agents
    /\ teams_config = disk_teams
    /\ last.status = "raised" => teams \in FreshRegistries

\* C25: a step of run_ai_team changes the session store only when the team
\* run returned on a session that had loaded, and then by storing that
\* document with the two turns; a call that ends because the team is
\* unavailable, a call without a loaded session and a call whose run raised
\* leave the store as it was.
RunStep == task' # task \/ ran' # ran
C25_StoreWrittenOnlyOnSuccess ==
    [][RunStep =>
         \/ store' = store
         \/ /\ RunEndStep
            /\ ran'.result = "res"
            /\ task.session_data # NoDoc
            /\ store' = MapSet(store, task.id,
                               WithTurns(task.session_data, task.prompt, "res"))]_vars
\* A team run has failed and the session started before it is stored as it
\* was created.
C25_Witness ==
    /\ ran.called /\ ran.status = "error" /\ ran.result = "exception"
    /\ task.pc = "idle"
    /\ made.called /\ made.fresh
    /\ Stored(store, made.id, made.doc)

====
